---- MODULE Spec2Model ----
(***************************************************************************)
(* The keyed collection type of mobx-state-tree (types/complex-types/     *)
(* map.ts): one declared map type (MapType) whose element type is a union  *)
(* of a number, a model "Todo" with identifier attribute "id", a model     *)
(* "Item" with identifier attribute "uid" and a model "Note" without       *)
(* identifier; up to two map instances created from that type, living in   *)
(* one state tree.                                                         *)
(*                                                                         *)
(* A map edit is the whole of ObservableMap.set / delete as map.ts wires   *)
(* it up in finalizeNewInstance: the interceptor willChange, the commit    *)
(* to the container, and (once the instance is finalized) the observer     *)
(* didChange.  The program is built for development or for production      *)
(* (process.env.NODE_ENV, map.ts:61); either build is a possible run.      *)
(***************************************************************************)
EXTENDS Integers, Sequences, FiniteSets, TLC

\* Payload values range over 1..MaxTask (the "task" field of a model, or the
\* value of a number child).
MaxTask == 2

Tasks == 1..MaxTask

\* The map instances that can be created from the one MapType.
Insts == {"a", "b"}

\* Identifier values are numbers (types.identifier(types.number), map.ts:329);
\* keys are strings.
Ids == {7, 8}

\* The keys a map can hold a child at: the string forms of the identifiers,
\* and "null", the string form of the identifier of a node that declares no
\* identifier attribute (map.ts:64).
Keys == {"7", "8", "null"}

\* The keys application code passes to set, and the keys of the snapshots
\* and patches it hands in.
CallKeys == {"7", "8"}

\* `for (let key in snapshot)` and Object.keys visit integer-like keys in
\* ascending numeric order, and then the other keys.
KeyOrder == <<"7", "8", "null">>

\* process.env.NODE_ENV
Builds == {"development", "production"}

\* "" + x  (map.ts:64, 72, 79, 206): the decimal string of a number; the
\* string "undefined" for a missing property (id 0 stands for undefined).
ToStr(n) == IF n = 7 THEN "7" ELSE IF n = 8 THEN "8" ELSE "undefined"

\* enum MapIdentifierMode
MapIdentifierMode == {"UNKNOWN", "YES", "NO"}

\* node.identifierAttribute; "undefined" is the JavaScript undefined.
Attrs == {"id", "uid", "undefined"}

Errors == {"none", "not-writable", "type-mismatch", "identity-schema-conflict",
           "identity-misplacement", "missing-identifier", "invalid-argument",
           "not-alive"}

-----------------------------------------------------------------------------
(* Values *)

\* A plain snapshot of a child: kind "scalar" (a number, value in task) or
\* "obj" (a model; attr names its identifier attribute, id is its value).
Snap(kind, attr, id, task) == [kind |-> kind, attr |-> attr, id |-> id, task |-> task]

NoSnap == Snap("none", "undefined", 0, 0)

ScalarSnaps == {Snap("scalar", "undefined", 0, t) : t \in Tasks}

\* Todo {id, task}, Note {task}, and one Item {uid, task}.
ObjSnaps ==
    {Snap("obj", "id", i, t) : i \in Ids, t \in Tasks}
    \cup {Snap("obj", "undefined", 0, t) : t \in Tasks}
    \cup {Snap("obj", "uid", 7, 1)}

\* A mutable plain object that fails the element type's validation
\* (for instance {id: 7, task: true}).
InvalidSnap == Snap("invalid", "id", 7, 0)

\* A raw value handed to set/put: a snapshot, or (live) an already created,
\* still detached instance of a model.
Raw(s, live) == [kind |-> s.kind, attr |-> s.attr, id |-> s.id, task |-> s.task, live |-> live]

NoRaw == Raw(NoSnap, FALSE)

\* The value read back from the map with get(key), handed to set(key, .) again.
StoredRaw == Raw(Snap("stored", "undefined", 0, 0), FALSE)

\* null / undefined / 0 / "" handed to put.
EmptyRaw == Raw(Snap("empty", "undefined", 0, 0), FALSE)

SetRaws ==
    {Raw(s, FALSE) : s \in ScalarSnaps \cup ObjSnaps \cup {InvalidSnap}}
    \cup {Raw(s, TRUE) : s \in ObjSnaps}

PutRaws == SetRaws \cup {EmptyRaw}

\* A child node stored in a map.
Child(kind, attr, id, task, subpath) ==
    [kind |-> kind, attr |-> attr, id |-> id, task |-> task,
     alive |-> TRUE, subpath |-> subpath]

NoChild ==
    [kind |-> "none", attr |-> "undefined", id |-> 0, task |-> 0,
     alive |-> FALSE, subpath |-> ""]

\* childNode.snapshot
SnapOf(c) == Snap(c.kind, c.attr, c.id, c.task)

\* A patch; path is the list of path segments below the map node.
Patch(op, path, value, oldValue) ==
    [op |-> op, path |-> path, value |-> value, oldValue |-> oldValue]

Ev(e, k) == [ev |-> e, key |-> k]

-----------------------------------------------------------------------------
(* The state *)

VARIABLES
    NODE_ENV,            \* process.env.NODE_ENV: the build the program runs as
    created,             \* created[i]: instance i has been created
    entries,             \* entries[i][k]: the child node instance i stores at key k
    identifierMode,      \* MapType.identifierMode (one per declared type)
    identifierAttribute, \* MapType.identifierAttribute
    isProtected,         \* the owning tree rejects direct mutation
    patches,             \* the patches the last operation emitted, in order
    seen,                \* seen[n]: the snapshot of what the container held at
                         \* the key of patches[n] when that patch was emitted
    log,                 \* the steps the last operation went through, in order
    gone,                \* the children the last operation took out of a map
    fresh,               \* the keys at which the last operation stored a node
                         \* that was not stored there before
    last,                \* the last operation: its name, arguments and error
    before,              \* the value stored by the operation before the last
                         \* one, when that was a successful put (else NoRaw)
    pending,             \* the patches of the primary the replica has still
                         \* to apply
    replica              \* replay of the patches: the error it ended with

vars == <<NODE_ENV, created, entries, identifierMode, identifierAttribute, isProtected,
          patches, seen, log, gone, fresh, last, before, pending, replica>>

-----------------------------------------------------------------------------
(* The working state of one operation on one map instance: its container,
   the type-level identifier fields, whether the tree node is writable, and
   what the operation has emitted so far.  err # "none": an exception is
   propagating. *)

Fail(c, e) == [c EXCEPT !.err = e]

Step(c, e, k) == [c EXCEPT !.log = Append(@, Ev(e, k))]

Emit(c, p) ==
    [c EXCEPT !.patches = Append(@, p),
              !.seen = Append(@, SnapOf(c.ent[p.path[1]]))]

\* typecheck(this.subType, value): the element type accepts numbers and
\* the three models, as snapshots or as instances.
typecheck(raw) == raw.kind \in {"scalar", "obj"}

\* subType.instantiate(node, key, undefined, value): a new child attached
\* at key; an instance handed in is attached as it is.
instantiate(key, raw) == Child(raw.kind, raw.attr, raw.id, raw.task, key)

\* node.die()
die(child) == [child EXCEPT !.alive = FALSE]

\* subType.reconcile(current, value).  A snapshot of the same model with the
\* same identifier is applied to the existing child in place (the child emits
\* its own patch when a field changes); applying it to a dead child fails.
\* Otherwise the existing child is disposed and a new one takes its place.
reconcile(current, raw) ==
    IF /\ raw.kind = "obj" /\ ~raw.live
       /\ current.kind = "obj" /\ current.attr = raw.attr
       /\ (current.attr = "undefined" \/ current.id = raw.id)
    THEN IF current.alive
         THEN [node |-> [current EXCEPT !.task = raw.task], old |-> current,
               same |-> TRUE, err |-> "none"]
         ELSE [node |-> current, old |-> current, same |-> TRUE, err |-> "not-alive"]
    ELSE [node |-> instantiate(current.subpath, raw), old |-> die(current),
          same |-> FALSE, err |-> "none"]

\* processIdentifier without the comparison of the identifier with the key.
processIdentifier_NoPlacement(expected, node, mode, attr) ==
    IF node.kind # "obj"
    THEN [mode |-> mode, attr |-> attr, err |-> "none"]
    ELSE LET m1 == IF mode = "UNKNOWN"
                   THEN (IF node.attr # "undefined" THEN "YES" ELSE "NO")
                   ELSE mode
             a1 == IF mode = "UNKNOWN" THEN node.attr ELSE attr
         IN  [mode |-> m1, attr |-> a1,
              err |-> IF node.attr # a1 THEN "identity-schema-conflict" ELSE "none"]

\* processIdentifier deciding the mode on every call, not only while UNKNOWN.
processIdentifier_Redecide(expected, node, mode, attr) ==
    IF node.kind # "obj"
    THEN [mode |-> mode, attr |-> attr, err |-> "none"]
    ELSE LET m1 == IF node.attr # "undefined" THEN "YES" ELSE "NO"
             a1 == node.attr
         IN  [mode |-> m1, attr |-> a1,
              err |-> IF m1 = "YES" /\ ToStr(node.id) # expected
                      THEN "identity-misplacement"
                      ELSE "none"]

\* processIdentifier without the comparison of the child's identifier
\* attribute with the recorded one (map.ts:196-204).
processIdentifier_NoSchemaCheck(expected, node, mode, attr) ==
    IF node.kind # "obj"
    THEN [mode |-> mode, attr |-> attr, err |-> "none"]
    ELSE LET m1 == IF mode = "UNKNOWN"
                   THEN (IF node.attr # "undefined" THEN "YES" ELSE "NO")
                   ELSE mode
             a1 == IF mode = "UNKNOWN" THEN node.attr ELSE attr
         IN  [mode |-> m1, attr |-> a1,
              err |-> IF m1 = "YES" /\ ToStr(node.id) # expected
                      THEN "identity-misplacement"
                      ELSE "none"]

\* MapType.processIdentifier(expected, node) with the type's identifierMode
\* and identifierAttribute: the fields after the call, and the failure.
processIdentifier(expected, node, mode, attr) ==
    IF node.kind # "obj"
    THEN [mode |-> mode, attr |-> attr, err |-> "none"]
    ELSE LET m1 == IF mode = "UNKNOWN"
                   THEN (IF node.attr # "undefined" THEN "YES" ELSE "NO")
                   ELSE mode
             a1 == IF mode = "UNKNOWN" THEN node.attr ELSE attr
         IN  [mode |-> m1, attr |-> a1,
              err |-> IF node.attr # a1 THEN "identity-schema-conflict"
                      ELSE IF m1 = "YES" /\ ToStr(node.id) # expected
                           THEN "identity-misplacement"
                           ELSE "none"]

\* The outcome of the interceptor: proceed = the change is handed back to the
\* container (FALSE: null was returned, or an exception propagates).
Change(c, proceed, newValue, oldValue, same) ==
    [ctx |-> c, proceed |-> proceed, newValue |-> newValue,
     oldValue |-> oldValue, same |-> same]

\* willChange without the comparison of map.ts:160.
identical_Never(raw, stored) == FALSE

\* change.newValue === change.object.get(key)
identical(raw, stored) ==
    \/ raw.kind = "stored"
    \/ raw.kind = "scalar" /\ stored.kind = "scalar" /\ raw.task = stored.task

\* The switch of MapType.willChange (map.ts:155-182), entered once the node
\* has been found writable.
changeSwitch(c0, type, key, raw) ==
    IF type = "delete"
    THEN Change(c0, TRUE, NoChild, NoChild, FALSE)
    ELSE IF type = "update"
    THEN LET oldValue == c0.ent[key] IN
         IF identical(raw, oldValue)
         THEN Change(c0, FALSE, NoChild, NoChild, FALSE)
         ELSE LET c1 == Step(c0, "typecheck", key) IN
              IF ~typecheck(raw)
              THEN Change(Fail(c1, "type-mismatch"), FALSE, NoChild, NoChild, FALSE)
              ELSE LET r  == reconcile(oldValue, raw)
                       c2 == Step(c1, "reconcile", key)
                   IN
                   IF r.err # "none"
                   THEN Change(Fail(c2, r.err), FALSE, NoChild, NoChild, FALSE)
                   ELSE LET c3 == IF r.same
                                  THEN IF r.node.task # oldValue.task
                                       THEN Emit(Step([c2 EXCEPT !.ent[key] = r.node],
                                                      "emit-child", key),
                                                 Patch("replace", <<key, "task">>,
                                                       Snap("scalar", "undefined", 0, r.node.task),
                                                       Snap("scalar", "undefined", 0, oldValue.task)))
                                       ELSE c2
                                  ELSE Step([c2 EXCEPT !.ent[key] = r.old], "die", key)
                            p  == processIdentifier(key, r.node, c3.mode, c3.attr)
                            c4 == [Step(c3, "processIdentifier", key)
                                     EXCEPT !.mode = p.mode, !.attr = p.attr, !.err = p.err]
                        IN  Change(c4, p.err = "none", r.node, r.old, r.same)
    ELSE LET c1 == Step(c0, "typecheck", key) IN
         IF ~typecheck(raw)
         THEN Change(Fail(c1, "type-mismatch"), FALSE, NoChild, NoChild, FALSE)
         ELSE LET node == instantiate(key, raw)
                  c2 == Step(c1, "instantiate", key)
                  p  == processIdentifier(key, node, c2.mode, c2.attr)
                  c3 == [Step(c2, "processIdentifier", key)
                           EXCEPT !.mode = p.mode, !.attr = p.attr, !.err = p.err]
              IN  Change(c3, p.err = "none", node, NoChild, FALSE)

\* willChange without node.assertWritable().
willChange_NoGate(c, type, key, raw) ==
    changeSwitch(Step(c, "assertWritable", key), type, key, raw)

\* MapType.willChange(change), change.type in {"add", "update", "delete"}.
willChange(c, type, key, raw) ==
    LET c0 == Step(c, "assertWritable", key) IN
    IF ~c.writable
    THEN Change(Fail(c0, "not-writable"), FALSE, NoChild, NoChild, FALSE)
    ELSE changeSwitch(c0, type, key, raw)

\* didChange emitting the remove patch without disposing the deleted child.
didChange_NoDie(c, type, key, newValue, oldValue) ==
    IF type = "update"
    THEN Emit(Step(c, "emit-replace", key),
              Patch("replace", <<key>>, SnapOf(newValue), SnapOf(oldValue)))
    ELSE IF type = "add"
    THEN Emit(Step(c, "emit-add", key),
              Patch("add", <<key>>, SnapOf(newValue), NoSnap))
    ELSE Emit(Step([Step(c, "snapshot", key) EXCEPT !.gone = Append(@, oldValue)],
                   "emit-remove", key),
              Patch("remove", <<key>>, NoSnap, SnapOf(oldValue)))

\* didChange disposing the deleted child before it reads its snapshot.
didChange_DieFirst(c, type, key, newValue, oldValue) ==
    IF type = "update"
    THEN Emit(Step(c, "emit-replace", key),
              Patch("replace", <<key>>, SnapOf(newValue), SnapOf(oldValue)))
    ELSE IF type = "add"
    THEN Emit(Step(c, "emit-add", key),
              Patch("add", <<key>>, SnapOf(newValue), NoSnap))
    ELSE LET c1 == [Step(c, "die", key) EXCEPT !.gone = Append(@, die(oldValue))]
             dead == c1.gone[Len(c1.gone)]
             c2 == Step(c1, "snapshot", key)
         IN  Emit(Step(c2, "emit-remove", key),
                  Patch("remove", <<key>>, NoSnap, SnapOf(dead)))

\* MapType.didChange(change): the patch of a committed change; a deleted
\* child is snapshotted, disposed, and then the remove patch is emitted.
didChange(c, type, key, newValue, oldValue) ==
    IF type = "update"
    THEN Emit(Step(c, "emit-replace", key),
              Patch("replace", <<key>>, SnapOf(newValue), SnapOf(oldValue)))
    ELSE IF type = "add"
    THEN Emit(Step(c, "emit-add", key),
              Patch("add", <<key>>, SnapOf(newValue), NoSnap))
    ELSE LET oldSnapshot == SnapOf(oldValue)
             c1 == Step(c, "snapshot", key)
             c2 == [Step(c1, "die", key) EXCEPT !.gone = Append(@, die(oldValue))]
         IN  Emit(Step(c2, "emit-remove", key),
                  Patch("remove", <<key>>, NoSnap, oldSnapshot))

\* ObservableMap.has(key)
HasKey(c, key) == key \in Keys /\ c.ent[key].kind # "none"

\* ObservableMap.set notifying the observer before the container stores the
\* value.
MapSet_NotifyFirst(c, key, raw) ==
    LET type == IF HasKey(c, key) THEN "update" ELSE "add"
        w == willChange(c, type, key, raw)
    IN  IF ~w.proceed THEN w.ctx
        ELSE IF w.same THEN w.ctx
        ELSE LET c1 == IF c.observed
                       THEN didChange(w.ctx, type, key, w.newValue, w.oldValue)
                       ELSE w.ctx
             IN  [c1 EXCEPT !.ent[key] = w.newValue,
                            !.fresh = @ \cup {key},
                            !.gone = IF type = "update"
                                     THEN Append(@, w.oldValue) ELSE @]

\* ObservableMap.set(key, value) on an intercepted map: willChange, then the
\* container stores the rewritten value, then didChange if the observer has
\* been registered (map.ts:136).  When the interceptor hands back the node
\* the container already holds (reconcile reused it), the container stores
\* nothing and notifies nobody.
MapSet(c, key, raw) ==
    LET type == IF HasKey(c, key) THEN "update" ELSE "add"
        w == willChange(c, type, key, raw)
    IN  IF ~w.proceed THEN w.ctx
        ELSE IF w.same THEN w.ctx
        ELSE LET c1 == [w.ctx EXCEPT !.ent[key] = w.newValue,
                                     !.fresh = @ \cup {key},
                                     !.gone = IF type = "update"
                                              THEN Append(@, w.oldValue) ELSE @]
             IN  IF c.observed
                 THEN didChange(c1, type, key, w.newValue, w.oldValue)
                 ELSE c1

\* ObservableMap.delete(key): the interceptor runs even for an absent key.
MapDelete(c, key) ==
    LET w == willChange(c, "delete", key, NoRaw) IN
    IF ~w.proceed \/ ~HasKey(c, key) THEN w.ctx
    ELSE LET c1 == [w.ctx EXCEPT !.ent[key] = NoChild, !.fresh = @ \ {key}]
         IN  IF c.observed
             THEN didChange(c1, "delete", key, NoChild, c.ent[key])
             ELSE c1

\* "" + node.identifier (map.ts:64): the identifier of a node that declares
\* no identifier attribute is null.
NodeKey(raw) == IF raw.attr = "undefined" THEN "null" ELSE ToStr(raw.id)

\* put refusing a raw value whenever the mode is decided (the test of
\* map.ts:70 made for "not UNKNOWN" instead of NO).
put_RefuseDecided(c, raw) ==
    IF raw.kind = "empty" THEN Fail(c, "invalid-argument")
    ELSE IF raw.live
    THEN IF c.env # "production" /\ raw.attr = "undefined"
         THEN Fail(c, "missing-identifier")
         ELSE MapSet(c, NodeKey(raw), raw)
    ELSE IF raw.kind = "scalar" THEN Fail(c, "invalid-argument")
    ELSE IF c.mode # "UNKNOWN" THEN Fail(c, "missing-identifier")
    ELSE LET c1 == Step(c, "create", "") IN
         IF ~typecheck(raw) THEN Fail(c1, "type-mismatch")
         ELSE IF raw.attr = "undefined" THEN Fail(c1, "missing-identifier")
         ELSE MapSet(c1, ToStr(raw.id), [raw EXCEPT !.live = TRUE])

\* put(value), map.ts:57-82.  The test of map.ts:62 is made in a development
\* build only.
put(c, raw) ==
    IF raw.kind = "empty" THEN Fail(c, "invalid-argument")
    ELSE IF raw.live
    THEN IF c.env # "production" /\ raw.attr = "undefined"
         THEN Fail(c, "missing-identifier")
         ELSE MapSet(c, NodeKey(raw), raw)
    ELSE IF raw.kind = "scalar" THEN Fail(c, "invalid-argument")
    ELSE IF c.mode = "NO" THEN Fail(c, "missing-identifier")
    ELSE IF c.mode = "YES"
    THEN MapSet(c, ToStr(IF raw.attr = c.attr THEN raw.id ELSE 0), raw)
    ELSE LET c1 == Step(c, "create", "") IN
         IF ~typecheck(raw) THEN Fail(c1, "type-mismatch")
         ELSE IF raw.attr = "undefined" THEN Fail(c1, "missing-identifier")
         ELSE MapSet(c1, ToStr(raw.id), [raw EXCEPT !.live = TRUE])

\* An incoming snapshot: plain = it is a plain object; vals[k] = its value
\* at key k, NoSnap when it has no such key.
SnapArg(plain, vals) == [plain |-> plain, vals |-> vals]

NoSnapArg == SnapArg(TRUE, [k \in Keys |-> NoSnap])

\* isValidSnapshot that only looks at the shape of the value and validates
\* none of its members.
isValidSnapshot_PlainOnly(S) == S.plain

\* MapType.isValidSnapshot(value)
isValidSnapshot(S) ==
    /\ S.plain
    /\ \A k \in Keys : S.vals[k].kind # "none" => typecheck(Raw(S.vals[k], FALSE))

\* for (let key in snapshot) { target.set("" + key, snapshot[key]); ... }
RECURSIVE SetAll(_, _, _)
SetAll(c, S, ks) ==
    IF ks = <<>> \/ c.err # "none" THEN c
    ELSE SetAll(MapSet(c, Head(ks), Raw(S.vals[Head(ks)], FALSE)), S, Tail(ks))

\* Object.keys(currentKeys).forEach(key => { if (...) target.delete(key) })
RECURSIVE DeleteAll(_, _)
DeleteAll(c, ks) ==
    IF ks = <<>> \/ c.err # "none" THEN c
    ELSE DeleteAll(MapDelete(c, Head(ks)), Tail(ks))

\* applySnapshot with the two loops of map.ts:284-290 in the other order:
\* the keys the snapshot does not have are deleted first.
applySnapshot_DeleteFirst(c, S) ==
    LET c0 == Step(c, "typecheck", "") IN
    IF ~isValidSnapshot(S)
    THEN Fail(c0, IF S.plain THEN "type-mismatch" ELSE "invalid-argument")
    ELSE LET InS(k) == S.vals[k].kind # "none"
             Stale(k) == HasKey(c, k) /\ ~InS(k)
             c1 == DeleteAll(c0, SelectSeq(KeyOrder, Stale))
         IN  SetAll(c1, S, SelectSeq(KeyOrder, InS))

\* applySnapshot that never deletes the keys the snapshot does not have.
applySnapshot_NoDelete(c, S) ==
    LET c0 == Step(c, "typecheck", "") IN
    IF ~isValidSnapshot(S)
    THEN Fail(c0, IF S.plain THEN "type-mismatch" ELSE "invalid-argument")
    ELSE LET InS(k) == S.vals[k].kind # "none"
         IN  SetAll(c0, S, SelectSeq(KeyOrder, InS))

\* applySnapshot as target.replace would do it (see the comment at
\* map.ts:283): every existing item is thrown out first.
applySnapshot_ClearFirst(c, S) ==
    LET c0 == Step(c, "typecheck", "") IN
    IF ~isValidSnapshot(S)
    THEN Fail(c0, IF S.plain THEN "type-mismatch" ELSE "invalid-argument")
    ELSE LET InS(k) == S.vals[k].kind # "none"
             Has(k) == HasKey(c, k)
             c1 == DeleteAll(c0, SelectSeq(KeyOrder, Has))
         IN  SetAll(c1, S, SelectSeq(KeyOrder, InS))

\* MapType.applySnapshot(node, snapshot)
applySnapshot(c, S) ==
    LET c0 == Step(c, "typecheck", "") IN
    IF ~isValidSnapshot(S)
    THEN Fail(c0, IF S.plain THEN "type-mismatch" ELSE "invalid-argument")
    ELSE LET InS(k) == S.vals[k].kind # "none"
             Stale(k) == HasKey(c, k) /\ ~InS(k)
             c1 == SetAll(c0, S, SelectSeq(KeyOrder, InS))
         IN  DeleteAll(c1, SelectSeq(KeyOrder, Stale))

\* MapType.getSnapshot(node): res[childNode.subpath] = childNode.snapshot
RECURSIVE SnapshotFrom(_, _, _)
SnapshotFrom(ent, ks, res) ==
    IF ks = <<>> THEN res
    ELSE LET child == ent[Head(ks)] IN
         SnapshotFrom(ent, Tail(ks),
                      IF child.kind = "none" THEN res
                      ELSE [res EXCEPT ![child.subpath] = SnapOf(child)])

getSnapshot(ent) == SnapshotFrom(ent, KeyOrder, [k \in Keys |-> NoSnap])

\* applyPatchLocally with the "replace" case missing from the switch.
applyPatchLocally_NoReplace(c, subpath, patch) ==
    IF patch.op = "add"
    THEN MapSet(c, subpath, Raw(patch.value, FALSE))
    ELSE IF patch.op = "remove" THEN MapDelete(c, subpath)
    ELSE c

\* MapType.applyPatchLocally(node, subpath, patch): the switch has no default
\* case, a patch of any other kind does nothing.
applyPatchLocally(c, subpath, patch) ==
    IF patch.op \in {"add", "replace"}
    THEN MapSet(c, subpath, Raw(patch.value, FALSE))
    ELSE IF patch.op = "remove" THEN MapDelete(c, subpath)
    ELSE c

\* MapType.removeChild(node, subpath)
removeChild(c, subpath) == MapDelete(c, subpath)

\* MapType.createNewInstance(): an empty observable map.
createNewInstance == [k \in Keys |-> NoChild]

\* MapType.finalizeNewInstance(node, snapshot): the interceptor is installed,
\* the initial snapshot is applied, and only then the observer is registered.
finalizeNewInstance(c, snapshot) ==
    [applySnapshot([c EXCEPT !.observed = FALSE], snapshot) EXCEPT !.observed = TRUE]

-----------------------------------------------------------------------------
(* The operations as steps of the state machine *)

Op(name, inst, key, raw, snap) ==
    [op |-> name, inst |-> inst, key |-> key, raw |-> raw, snap |-> snap,
     err |-> "none"]

\* The working state at the start of an operation on instance i.
Begin(i, writable) ==
    [ent |-> entries[i], mode |-> identifierMode, attr |-> identifierAttribute,
     env |-> NODE_ENV, observed |-> TRUE,
     writable |-> writable, patches |-> <<>>, seen |-> <<>>, log |-> <<>>,
     gone |-> <<>>,
     fresh |-> {}, err |-> "none"]

Idle == Op("idle", "a", "", NoRaw, NoSnapArg)

\* The caller is back in control: no operation is running and the record of
\* the previous one has been settled.
Ready == last.op = "idle"

\* The state the operation leaves behind.
Finish(i, c, op) ==
    /\ Ready
    /\ created[i]
    /\ entries' = [entries EXCEPT ![i] = c.ent]
    /\ identifierMode' = c.mode
    /\ identifierAttribute' = c.attr
    /\ patches' = c.patches
    /\ seen' = c.seen
    /\ log' = c.log
    /\ gone' = c.gone
    /\ fresh' = c.fresh
    /\ last' = [op EXCEPT !.err = c.err]
    /\ replica' = "none"
    /\ UNCHANGED <<NODE_ENV, created, isProtected, before, pending>>

\* The outcome of MapType.instantiate for instance i: a creation that fails
\* yields no instance, but the type keeps what the attempt decided.
Instantiated(i, c, op) ==
    /\ Ready
    /\ ~created[i]
    /\ created' = [created EXCEPT ![i] = c.err = "none"]
    /\ entries' = [entries EXCEPT ![i] = IF c.err = "none" THEN c.ent
                                         ELSE createNewInstance]
    /\ identifierMode' = c.mode
    /\ identifierAttribute' = c.attr
    /\ patches' = c.patches
    /\ seen' = c.seen
    /\ log' = c.log
    /\ gone' = c.gone
    /\ fresh' = c.fresh
    /\ last' = [op EXCEPT !.err = c.err]
    /\ replica' = "none"
    /\ UNCHANGED <<NODE_ENV, isProtected, before, pending>>

\* The record of the last operation is put away; the program's state is not
\* touched.
Settle ==
    /\ ~Ready
    /\ pending = <<>>
    /\ last' = Idle
    /\ before' = IF last.op = "put" /\ last.err = "none" THEN last.raw ELSE NoRaw
    /\ patches' = <<>> /\ seen' = <<>>
    /\ log' = <<>> /\ gone' = <<>> /\ fresh' = {}
    /\ replica' = "none"
    /\ UNCHANGED <<NODE_ENV, created, entries, identifierMode,
                   identifierAttribute, isProtected, pending>>

\* The declared type after its constructor; no instance has been created.
Init ==
    /\ NODE_ENV \in Builds
    /\ created = [i \in Insts |-> FALSE]
    /\ entries = [i \in Insts |-> createNewInstance]
    /\ identifierMode = "UNKNOWN"
    /\ identifierAttribute = "undefined"
    /\ isProtected = FALSE
    /\ patches = <<>>
    /\ seen = <<>>
    /\ log = <<>>
    /\ gone = <<>>
    /\ fresh = {}
    /\ last = Idle
    /\ before = NoRaw
    /\ pending = <<>>
    /\ replica = "none"

\* MapType.instantiate(parent, subpath, environment, snapshot): a new map
\* instance with an initial snapshot; the node is writable while it is
\* being created.
Create(i, S) ==
    Instantiated(i, finalizeNewInstance(Begin(i, TRUE), S),
                 Op("create", i, "", NoRaw, S))

\* map.set(key, value), called directly by application code.
Set(i, key, raw) ==
    Finish(i, MapSet(Begin(i, ~isProtected), key, raw),
           Op("set", i, key, raw, NoSnapArg))

\* map.set(key, map.get(key))
SetStored(i, key) ==
    /\ entries[i][key].kind # "none"
    /\ Finish(i, MapSet(Begin(i, ~isProtected), key, StoredRaw),
           Op("set", i, key, StoredRaw, NoSnapArg))

\* map.put(value)
Put(i, raw) ==
    Finish(i, put(Begin(i, ~isProtected), raw),
           Op("put", i, "", raw, NoSnapArg))

\* map.delete(key)
Delete(i, key) ==
    Finish(i, MapDelete(Begin(i, ~isProtected), key),
           Op("delete", i, key, NoRaw, NoSnapArg))

\* detach / destroy of a child: node.removeChild(subpath)
RemoveChild(i, key) ==
    /\ entries[i][key].kind # "none"
    /\ Finish(i, removeChild(Begin(i, ~isProtected), key),
           Op("removeChild", i, key, NoRaw, NoSnapArg))

\* applySnapshot(map, snapshot): runs as an action, so the node is writable.
ApplySnapshot(i, S) ==
    Finish(i, applySnapshot(Begin(i, TRUE), S),
           Op("applySnapshot", i, "", NoRaw, S))

\* applyPatch(map, patch) for a patch addressed to key: runs as an action.
ApplyPatch(i, key, patch) ==
    Finish(i, applyPatchLocally(Begin(i, TRUE), key, patch),
           Op("applyPatch", i, key, Raw(patch.value, FALSE), NoSnapArg))

\* protect(tree) / unprotect(tree)
SetProtected(b) ==
    /\ Ready
    /\ isProtected # b
    /\ isProtected' = b
    /\ UNCHANGED <<NODE_ENV, created, entries, identifierMode,
                   identifierAttribute,
                   patches, seen, log, gone, fresh, last, before, pending,
                   replica>>

SnapVals == ScalarSnaps \cup ObjSnaps \cup {InvalidSnap, NoSnap}

\* The snapshots handed in: plain objects with any of the keys in CallKeys,
\* and one value that is not a plain object.
SnapArgs ==
    {SnapArg(TRUE, [k \in Keys |-> IF k \in CallKeys THEN v[k] ELSE NoSnap]) :
         v \in [CallKeys -> SnapVals]}
    \cup {SnapArg(FALSE, [k \in Keys |-> NoSnap])}

\* The patches handed in: the three kinds the map handles, and "move", one
\* of the kinds of IJsonPatch it has no case for.
ForeignPatches ==
    {Patch(o, <<k>>, v, NoSnap) : o \in {"add", "replace"}, k \in CallKeys,
                                  v \in ScalarSnaps \cup ObjSnaps}
    \cup {Patch(o, <<k>>, NoSnap, NoSnap) : o \in {"remove", "move"}, k \in CallKeys}

\* One map instance in an unprotected tree, every operation, with the full
\* record of the last one.
Next ==
    \/ \E S \in SnapArgs : Create("a", S)
    \/ \E k \in CallKeys, raw \in SetRaws : Set("a", k, raw)
    \/ \E k \in Keys : SetStored("a", k)
    \/ \E raw \in PutRaws : Put("a", raw)
    \/ \E k \in Keys : Delete("a", k)
    \/ \E k \in Keys : RemoveChild("a", k)
    \/ \E S \in SnapArgs : ApplySnapshot("a", S)
    \/ \E p \in ForeignPatches : ApplyPatch("a", p.path[1], p)
    \/ Settle

Spec == Init /\ [][Next]_vars

\* One map instance in a tree that is protected and unprotected at will, and
\* the edits application code makes on the map directly.
NextProtect ==
    \/ \E S \in SnapArgs : Create("a", S)
    \/ \E k \in CallKeys, raw \in SetRaws : Set("a", k, raw)
    \/ \E k \in Keys : SetStored("a", k)
    \/ \E raw \in PutRaws : Put("a", raw)
    \/ \E k \in Keys : Delete("a", k)
    \/ \E k \in Keys : RemoveChild("a", k)
    \/ \E b \in BOOLEAN : SetProtected(b)
    \/ Settle

SpecProtect == Init /\ [][NextProtect]_vars

-----------------------------------------------------------------------------
(* Two instances of the one map type: the operations on either instance,
   with no record kept of the last operation.  The payload of the values is
   fixed to 1 here: only the identity of the values varies. *)

Quiet(i, c) ==
    /\ Ready
    /\ created[i]
    /\ entries' = [entries EXCEPT ![i] = c.ent]
    /\ identifierMode' = c.mode
    /\ identifierAttribute' = c.attr
    /\ UNCHANGED <<NODE_ENV, created, isProtected, patches, seen, log, gone,
                   fresh, last, before, pending, replica>>

\* The outcome of MapType.instantiate for instance i.
QuietNew(i, c) ==
    /\ Ready
    /\ ~created[i]
    /\ created' = [created EXCEPT ![i] = c.err = "none"]
    /\ entries' = [entries EXCEPT ![i] = IF c.err = "none" THEN c.ent
                                         ELSE createNewInstance]
    /\ identifierMode' = c.mode
    /\ identifierAttribute' = c.attr
    /\ UNCHANGED <<NODE_ENV, isProtected, patches, seen, log, gone,
                   fresh, last, before, pending, replica>>

TypeCreate(i, S) == QuietNew(i, finalizeNewInstance(Begin(i, TRUE), S))

TypeSet(i, key, raw) == Quiet(i, MapSet(Begin(i, TRUE), key, raw))

TypePut(i, raw) == Quiet(i, put(Begin(i, TRUE), raw))

TypeDelete(i, key) ==
    /\ entries[i][key].kind # "none"
    /\ Quiet(i, MapDelete(Begin(i, TRUE), key))

TypeApplySnapshot(i, S) == Quiet(i, applySnapshot(Begin(i, TRUE), S))

TypeApplyPatch(i, key, patch) == Quiet(i, applyPatchLocally(Begin(i, TRUE), key, patch))

TypeRaws == {r \in PutRaws : r.task <= 1}

TypeSnapArgs == {S \in SnapArgs : \A k \in Keys : S.vals[k].task <= 1}

TypePatches == {p \in ForeignPatches : p.value.task <= 1}

NextType ==
    \/ \E i \in Insts, S \in TypeSnapArgs : TypeCreate(i, S)
    \/ \E i \in Insts, k \in CallKeys, raw \in TypeRaws \ {EmptyRaw} : TypeSet(i, k, raw)
    \/ \E i \in Insts, raw \in TypeRaws : TypePut(i, raw)
    \/ \E i \in Insts, k \in Keys : TypeDelete(i, k)
    \/ \E i \in Insts, S \in TypeSnapArgs : TypeApplySnapshot(i, S)
    \/ \E i \in Insts, p \in TypePatches : TypeApplyPatch(i, p.path[1], p)

SpecType == Init /\ [][NextType]_vars

-----------------------------------------------------------------------------
(* A primary map "a" and a replica "b", created from one snapshot: the
   patches an operation of the primary emits are pending until the replica
   has applied them, in emission order; the next operation waits for that. *)

\* applyPatches on the replica's tree: a patch addressed to the map goes to
\* MapType.applyPatchLocally; a patch addressed below a child goes to that
\* child, which sets the field.
ReplayPatch(c, p) ==
    IF Len(p.path) = 1 THEN applyPatchLocally(c, p.path[1], p)
    ELSE LET k == p.path[1] IN
         IF ~HasKey(c, k) \/ ~c.ent[k].alive THEN Fail(c, "not-alive")
         ELSE [c EXCEPT !.ent[k].task = p.value.task]

\* The primary's operation left c; its patches await the replica.
Emitted(c, op) ==
    /\ Ready
    /\ created["a"] /\ created["b"]
    /\ entries' = [entries EXCEPT !["a"] = c.ent]
    /\ identifierMode' = c.mode
    /\ identifierAttribute' = c.attr
    /\ patches' = c.patches
    /\ seen' = c.seen
    /\ log' = c.log
    /\ gone' = c.gone
    /\ fresh' = c.fresh
    /\ last' = [op EXCEPT !.err = c.err]
    /\ pending' = c.patches
    /\ replica' = "none"
    /\ UNCHANGED <<NODE_ENV, created, isProtected, before>>

\* The replay of the first pending patch on the replica left r; a patch that
\* fails ends the replay.
Replayed(r) ==
    /\ pending # <<>>
    /\ entries' = [entries EXCEPT !["b"] = r.ent]
    /\ identifierMode' = r.mode
    /\ identifierAttribute' = r.attr
    /\ pending' = IF r.err = "none" THEN Tail(pending) ELSE <<>>
    /\ replica' = r.err
    /\ UNCHANGED <<NODE_ENV, created, isProtected, patches, seen, log, gone,
                   fresh, last, before>>

\* The replica applies the next patch of the primary's last operation.
Replicate == Replayed(ReplayPatch(Begin("b", TRUE), Head(pending)))

\* The creation of the primary left c; the replica is still to be created.
PrimaryCreated(c, op) ==
    /\ Ready
    /\ ~created["a"] /\ ~created["b"]
    /\ created' = [created EXCEPT !["a"] = c.err = "none"]
    /\ entries' = [entries EXCEPT !["a"] = IF c.err = "none" THEN c.ent
                                           ELSE createNewInstance]
    /\ identifierMode' = c.mode
    /\ identifierAttribute' = c.attr
    /\ patches' = c.patches
    /\ seen' = c.seen
    /\ log' = c.log
    /\ gone' = c.gone
    /\ fresh' = c.fresh
    /\ last' = [op EXCEPT !.err = c.err]
    /\ pending' = <<>>
    /\ replica' = "none"
    /\ UNCHANGED <<NODE_ENV, isProtected, before>>

\* The creation of the replica left r.
ReplicaCreated(r) ==
    /\ created["a"] /\ ~created["b"]
    /\ replica = "none"
    /\ created' = [created EXCEPT !["b"] = r.err = "none"]
    /\ entries' = [entries EXCEPT !["b"] = IF r.err = "none" THEN r.ent
                                           ELSE createNewInstance]
    /\ identifierMode' = r.mode
    /\ identifierAttribute' = r.attr
    /\ replica' = r.err
    /\ UNCHANGED <<NODE_ENV, isProtected, patches, seen, log, gone,
                   fresh, last, before, pending>>

\* The primary is created from a snapshot ...
RepCreate(S) ==
    PrimaryCreated(finalizeNewInstance(Begin("a", TRUE), S),
                   Op("create", "a", "", NoRaw, S))

\* ... and the replica from the same snapshot.
RepCreateReplica ==
    ReplicaCreated(finalizeNewInstance(Begin("b", TRUE), last.snap))

\* The record of the last operation is put away once the replica has caught
\* up with the primary.
RepSettle == (created["a"] => created["b"]) /\ Settle

RepSet(key, raw) ==
    Emitted(MapSet(Begin("a", TRUE), key, raw),
            Op("set", "a", key, raw, NoSnapArg))

RepPut(raw) ==
    Emitted(put(Begin("a", TRUE), raw),
            Op("put", "a", "", raw, NoSnapArg))

RepDelete(key) ==
    Emitted(MapDelete(Begin("a", TRUE), key),
            Op("delete", "a", key, NoRaw, NoSnapArg))

RepApplySnapshot(S) ==
    Emitted(applySnapshot(Begin("a", TRUE), S),
            Op("applySnapshot", "a", "", NoRaw, S))

NextReplica ==
    \/ \E S \in SnapArgs : RepCreate(S)
    \/ RepCreateReplica
    \/ \E k \in CallKeys, raw \in SetRaws : RepSet(k, raw)
    \/ \E raw \in PutRaws : RepPut(raw)
    \/ \E k \in Keys : RepDelete(k)
    \/ \E S \in SnapArgs : RepApplySnapshot(S)
    \/ Replicate
    \/ RepSettle

SpecReplica == Init /\ [][NextReplica]_vars

-----------------------------------------------------------------------------
(* Properties *)

\* The keys a container holds a child at.
StoredIn(ent) == {k \in Keys : ent[k].kind # "none"}

\* The plain value of a raw value (the snapshot an instance made of it has).
RawSnap(raw) == Snap(raw.kind, raw.attr, raw.id, raw.task)

\* The child is a live child with the value of raw.
Holds(child, raw) ==
    child.kind # "none" /\ child.alive /\ SnapOf(child) = RawSnap(raw)

\* The patches among ps that are addressed to key k or below it.
PatchesAt(ps, k) == LET At(p) == p.path[1] = k IN SelectSeq(ps, At)

\* C1 (identity coherence): whenever the type's identifierMode is YES, every
\* structured child of every instance is stored under the string form of its
\* own identifier.
C1_IdentityCoherence ==
    identifierMode = "YES" =>
        \A i \in Insts, k \in Keys :
            entries[i][k].kind = "obj" => k = ToStr(entries[i][k].id)

\* Both instances hold identified children, under different keys.
C1_Witness ==
    /\ identifierMode = "YES"
    /\ entries["a"]["7"].kind = "obj"
    /\ entries["b"]["8"].kind = "obj"

\* C3 (set-once): once identifierMode has left UNKNOWN, no step of any
\* operation on any instance changes identifierMode or identifierAttribute.
C3_ModeSetOnce ==
    [][identifierMode # "UNKNOWN" =>
          /\ identifierMode' = identifierMode
          /\ identifierAttribute' = identifierAttribute]_vars

\* The mode was decided as NO, and both instances received children since.
C3_Witness ==
    /\ identifierMode = "NO"
    /\ \E k \in Keys : entries["a"][k].kind = "obj"
    /\ \E k \in Keys : entries["b"][k].kind = "obj" /\ ~entries["b"][k].alive

\* C2 (store under the own identity), for a set on a writable map whose type
\* is still UNKNOWN or IDENTIFIED by the value's own attribute: with a key
\* other than the string form of the value's identifier the set fails with
\* identity-misplacement and leaves the entries as they were; with that key
\* it succeeds and the key holds the value.
C2_SetByIdentity ==
    [][(/\ last'.op = "set"
        /\ ~isProtected
        /\ last'.raw.kind = "obj" /\ last'.raw.attr # "undefined"
        /\ (identifierMode = "UNKNOWN" \/ identifierAttribute = last'.raw.attr))
       => IF last'.key # ToStr(last'.raw.id)
          THEN last'.err = "identity-misplacement" /\ entries' = entries
          ELSE /\ last'.err = "none"
               /\ Holds(entries'[last'.inst][last'.key], last'.raw)]_vars

\* C4 (snapshot round trip): after an applySnapshot(S) that completed, the
\* exported snapshot of the map equals S, key by key.
C4_SnapshotRoundTrip ==
    (last.op = "applySnapshot" /\ last.err = "none")
        => getSnapshot(entries[last.inst]) = last.snap.vals

\* An applySnapshot with a structured value that added a child and took
\* another one out.
C4_Witness ==
    /\ last.op = "applySnapshot" /\ last.err = "none"
    /\ fresh # {} /\ gone # <<>>
    /\ \E k \in Keys : last.snap.vals[k].kind = "obj"

\* C5 (replica convergence): the primary "a" and the replica "b" start with
\* equal snapshots, and after every operation of the primary, once its
\* patches have been replayed on the replica, the replay has not failed and
\* the two snapshots are equal.
C5_ReplicaConvergence ==
    (pending = <<>> /\ created["a"] = created["b"]) =>
        /\ replica = "none"
        /\ getSnapshot(entries["a"]) = getSnapshot(entries["b"])

\* An applySnapshot of the primary that emitted several patches, one of them
\* by a child updated in place, all replayed on the replica.
C5_Witness ==
    /\ pending = <<>> /\ replica = "none"
    /\ last.op = "applySnapshot"
    /\ Len(patches) >= 2
    /\ \E n \in 1..Len(patches) : Len(patches[n].path) = 2
    /\ StoredIn(entries["b"]) # {}

C7_PutLastWriteWins ==
    [][(last'.op = "put" /\ last'.raw.attr # "undefined") =>
        LET i == last'.inst
            raw == last'.raw
            k == ToStr(raw.id)
        IN  /\ last'.err = "none" =>
                   /\ k \in CallKeys
                   /\ Holds(entries'[i][k], raw)
                   /\ \A j \in Keys \ {k} : entries'[i][j] = entries[i][j]
                   /\ StoredIn(entries'[i]) = StoredIn(entries[i]) \cup {k}
            /\ (/\ ~isProtected
                /\ before.kind = "obj" /\ raw.kind = "obj"
                /\ before.attr = raw.attr /\ before.id = raw.id) =>
                   /\ last'.err = "none"
                   /\ StoredIn(entries'[i]) = StoredIn(entries[i])]_vars

\* The second of two puts with one identity and different payloads; the map
\* holds one entry.
C7_Witness ==
    /\ last.op = "put" /\ last.err = "none"
    /\ before.kind = "obj"
    /\ before.attr = last.raw.attr /\ before.id = last.raw.id
    /\ before.task # last.raw.task
    /\ Cardinality(StoredIn(entries["a"])) = 1
    /\ entries["a"][ToStr(last.raw.id)].task = last.raw.task

\* C8 (a removed child is dead): every child the last operation took out of
\* the map is dead; every remove patch is for such a child; and the child
\* was disposed before its remove patch was emitted.
C8_RemovedChildIsDead ==
    /\ \A n \in 1..Len(gone) : ~gone[n].alive
    /\ \A n \in 1..Len(patches) : patches[n].op = "remove" =>
           \E m \in 1..Len(gone) :
               /\ gone[m].subpath = patches[n].path[1]
               /\ SnapOf(gone[m]) = patches[n].oldValue
    /\ \A n \in 1..Len(log) : log[n].ev = "emit-remove" =>
           \E m \in 1..(n - 1) : log[m] = Ev("die", log[n].key)

\* A stale key dropped by applySnapshot.
C8_Witness ==
    /\ last.op = "applySnapshot"
    /\ \E n \in 1..Len(patches) : patches[n].op = "remove"
    /\ gone # <<>>

\* C9 (write protection): on a protected tree a set, delete or removeChild
\* fails with not-writable as the first thing the interceptor does, and a
\* put fails without the interceptor going past that check; none of them
\* emits a patch or changes the entries or the type's identifier fields.
C9_WriteProtection ==
    [][(isProtected /\ last'.op \in {"set", "put", "delete", "removeChild"}) =>
        /\ last'.err # "none"
        /\ entries' = entries
        /\ identifierMode' = identifierMode
        /\ identifierAttribute' = identifierAttribute
        /\ patches' = <<>>
        /\ last'.op # "put" =>
               /\ last'.err = "not-writable"
               /\ log' = <<Ev("assertWritable", last'.key)>>
        /\ last'.op = "put" =>
               /\ \A n \in 1..Len(log') : log'[n].ev \in {"create", "assertWritable"}
               /\ (\E n \in 1..Len(log') : log'[n].ev = "assertWritable")
                      => last'.err = "not-writable"]_vars

\* An update with the very value that is stored, refused on a protected tree.
C9_Witness ==
    /\ isProtected
    /\ last.op = "set" /\ last.raw = StoredRaw
    /\ last.err = "not-writable"

\* C10 (an aborted edit has no effect): a set or put that fails leaves the
\* entries and the type's identifierMode and identifierAttribute as they
\* were and emits no patch.
C10_AbortHasNoEffect ==
    [][(last'.op \in {"set", "put"} /\ last'.err # "none") =>
        /\ entries' = entries
        /\ identifierMode' = identifierMode
        /\ identifierAttribute' = identifierAttribute
        /\ patches' = <<>>]_vars

\* C11 (a type-invalid snapshot is rejected atomically): an applySnapshot
\* whose value is not a plain object, or has a member the element type does
\* not accept, fails at its type check, before any set or delete: the entries
\* are unchanged and no patch is emitted.
C11_InvalidSnapshotRejected ==
    [][(/\ last'.op = "applySnapshot"
        /\ \/ ~last'.snap.plain
           \/ \E k \in Keys : last'.snap.vals[k].kind = "invalid")
       => /\ last'.err \in {"type-mismatch", "invalid-argument"}
          /\ log' = <<Ev("typecheck", "")>>
          /\ entries' = entries
          /\ patches' = <<>>]_vars

\* A snapshot with an acceptable member at the first key and an unacceptable
\* one at the second, refused by a map that holds a child.
C11_Witness ==
    /\ last.op = "applySnapshot" /\ last.err = "type-mismatch"
    /\ last.snap.vals["7"].kind = "obj"
    /\ last.snap.vals["8"].kind = "invalid"
    /\ entries["a"]["8"].kind # "none"
    /\ patches = <<>>

\* C12 (applySnapshot is all-or-nothing): an applySnapshot that fails, for
\* whatever reason, leaves the entries and the exported snapshot of the map
\* as they were before the call and has emitted no patch.
C12_SnapshotAllOrNothing ==
    [][(last'.op = "applySnapshot" /\ last'.err # "none")
       => /\ entries' = entries
          /\ getSnapshot(entries'[last'.inst]) = getSnapshot(entries[last'.inst])
          /\ patches' = <<>>]_vars

\* The position of the last assertWritable step in a log (0 if none): the
\* start of the last edit.
LastEdit(l) ==
    LET S == {n \in 1..Len(l) : l[n].ev = "assertWritable"}
    IN  IF S = {} THEN 0 ELSE CHOOSE n \in S : \A m \in S : m <= n

\* C13 (patches describe already-applied state): when the map emitted an add
\* or replace patch for key k the container held at k a child whose snapshot
\* is the patch value; when it emitted a remove patch for k the container
\* held nothing at k; and an edit that aborted emitted no patch.
C13_PatchAfterCommit ==
    /\ Len(seen) = Len(patches)
    /\ \A n \in 1..Len(patches) : Len(patches[n].path) = 1 =>
           IF patches[n].op \in {"add", "replace"}
           THEN patches[n].value.kind # "none" /\ seen[n] = patches[n].value
           ELSE seen[n] = NoSnap
    /\ last.err # "none" =>
           \A n \in (LastEdit(log) + 1)..Len(log) :
               log[n].ev \notin {"emit-add", "emit-replace", "emit-remove", "emit-child"}
    /\ (last.op \in {"set", "put", "delete", "removeChild", "applyPatch"}
        /\ last.err # "none") => patches = <<>>

\* One operation that emitted a replace and a remove patch.
C13_Witness ==
    /\ \E n \in 1..Len(patches) :
           /\ patches[n].op = "replace" /\ Len(patches[n].path) = 1
           /\ seen[n] = patches[n].value
    /\ \E n \in 1..Len(patches) : patches[n].op = "remove" /\ seen[n] = NoSnap

\* The key a set or put is about.
EditKey(op) == IF op.op = "put" THEN NodeKey(op.raw) ELSE op.key

\* C14 (edit kind determines patch kind): a committed set or put
\* on an absent key emits exactly one add patch at the key, with the new
\* child's snapshot and no oldValue; on a present key, with a value that is
\* not identical to the stored one, exactly one replace patch at the key with
\* the new and the previous child's snapshot; a committed delete exactly one
\* remove patch at the key.
C14_PatchKind ==
    [][LET i == last'.inst
           k == EditKey(last')
           old == entries[i][k]
           new == entries'[i][k]
       IN  /\ (last'.op \in {"set", "put"} /\ last'.err = "none") =>
                  IF old.kind = "none"
                  THEN patches' = <<Patch("add", <<k>>, SnapOf(new), NoSnap)>>
                  ELSE ~identical(last'.raw, old) =>
                           patches' = <<Patch("replace", <<k>>, SnapOf(new), SnapOf(old))>>
           /\ (last'.op \in {"delete", "removeChild"} /\ last'.err = "none"
               /\ old.kind # "none") =>
                  patches' = <<Patch("remove", <<k>>, NoSnap, SnapOf(old))>>]_vars

\* C15 (ordering inside a delete): for every child the map deletes, its
\* snapshot is read first, then the child is disposed, then the remove patch
\* is emitted; the patch's oldValue is the snapshot the child had before the
\* operation, and a committed delete emits exactly that patch.
C15_DeleteOrder ==
    [][LET i == last'.inst IN
       /\ \A n \in 1..Len(log') : log'[n].ev = "emit-remove" =>
              /\ n >= 3
              /\ log'[n - 2] = Ev("snapshot", log'[n].key)
              /\ log'[n - 1] = Ev("die", log'[n].key)
       /\ \A n \in 1..Len(patches') : patches'[n].op = "remove" =>
              LET k == patches'[n].path[1] IN
              /\ entries[i][k].kind # "none"
              /\ patches'[n].oldValue = SnapOf(entries[i][k])
              /\ \E m \in 1..Len(gone') : gone'[m] = die(entries[i][k])
       /\ (/\ last'.op \in {"delete", "removeChild"} /\ last'.err = "none"
           /\ entries[i][last'.key].kind # "none") =>
              /\ Len(patches') = 1 /\ patches'[1].op = "remove"
              /\ patches'[1].path = <<last'.key>>
              /\ log' = <<Ev("assertWritable", last'.key), Ev("snapshot", last'.key),
                          Ev("die", last'.key), Ev("emit-remove", last'.key)>>]_vars

\* A committed delete of a model instance.
C15_Witness ==
    /\ last.op = "delete" /\ last.err = "none"
    /\ Len(patches) = 1 /\ patches[1].op = "remove"
    /\ patches[1].oldValue.kind = "obj"
    /\ Len(gone) = 1 /\ SnapOf(gone[1]) = patches[1].oldValue

\* C16 (an identical-value update is a no-op): on a writable tree a set of a
\* present key with the very value stored there (the value read back from the
\* map, or a number equal to the stored number) completes after the
\* writability check alone: no type check, no reconciliation, no identity
\* resolution, no patch, no disposed child, entries and identifier fields
\* unchanged.
C16_IdenticalUpdateNoOp ==
    [][LET old == entries[last'.inst][last'.key] IN
       (/\ last'.op = "set" /\ ~isProtected
        /\ old.kind # "none"
        /\ \/ last'.raw = StoredRaw
           \/ /\ last'.raw.kind = "scalar" /\ old.kind = "scalar"
              /\ last'.raw.task = old.task)
       => /\ last'.err = "none"
          /\ log' = <<Ev("assertWritable", last'.key)>>
          /\ patches' = <<>>
          /\ gone' = <<>> /\ fresh' = {}
          /\ entries' = entries
          /\ identifierMode' = identifierMode
          /\ identifierAttribute' = identifierAttribute]_vars

\* A model instance read back from a writable map and set again at its key.
C16_Witness ==
    /\ ~isProtected
    /\ last.op = "set" /\ last.raw = StoredRaw /\ last.err = "none"
    /\ entries["a"][last.key].kind = "obj" /\ entries["a"][last.key].alive
    /\ log = <<Ev("assertWritable", last.key)>>

\* C17 (the first child insertion decides the mode): a successful
\* insertion of a child, structured or bare, into a map whose type is still
\* UNKNOWN leaves the type IDENTIFIED, with the child's attribute recorded,
\* if the child is a structured instance that declares an identifying
\* attribute, and UNIDENTIFIED otherwise.
C17_FirstInsertDecides ==
    [][LET k == EditKey(last')
           old == entries[last'.inst][k]
           new == entries'[last'.inst][k]
       IN  (/\ last'.op \in {"set", "put"} /\ last'.err = "none"
            /\ identifierMode = "UNKNOWN"
            /\ old.kind = "none" /\ new.kind # "none")
           => IF new.kind = "obj" /\ new.attr # "undefined"
              THEN identifierMode' = "YES" /\ identifierAttribute' = new.attr
              ELSE identifierMode' = "NO"]_vars

\* C18 (homogeneity): after every step every structured child stored in an
\* instance declares the identifier attribute the type has recorded; and a
\* set (directly or from a patch) of a structured value on a writable tree is
\* rejected with identity-schema-conflict, storing nothing and emitting no
\* patch at the key, when the type is IDENTIFIED and the value declares
\* another attribute or none, or when the type is UNIDENTIFIED and the value
\* declares one.
C18_Homogeneity ==
    [][/\ \A i \in Insts, k \in Keys :
              entries'[i][k].kind = "obj"
                  => entries'[i][k].attr = identifierAttribute'
       /\ (/\ last'.op \in {"set", "applyPatch"}
           /\ (last'.op = "set" => ~isProtected)
           /\ last'.raw.kind = "obj"
           /\ \/ identifierMode = "YES" /\ last'.raw.attr # identifierAttribute
              \/ identifierMode = "NO" /\ last'.raw.attr # "undefined")
          => /\ last'.err = "identity-schema-conflict"
             /\ fresh' = {}
             /\ patches' = <<>>
             /\ identifierMode' = identifierMode
             /\ identifierAttribute' = identifierAttribute]_vars

\* A map of an UNIDENTIFIED type that holds a model without identifier and
\* has refused a model that declares one.
C18_Witness ==
    /\ identifierMode = "NO"
    /\ last.op = "set" /\ last.err = "identity-schema-conflict"
    /\ last.raw.attr = "id"
    /\ \E k \in Keys : entries["a"][k].kind = "obj" /\ entries["a"][k].alive

\* put cannot key the value: it is empty, it is a bare value, the type is
\* UNIDENTIFIED, or the value has no identifying attribute.
CannotKey(raw, mode) ==
    \/ raw.kind = "empty"
    \/ raw.kind = "scalar"
    \/ mode = "NO"
    \/ raw.attr = "undefined"

\* C19 (put rejects every value it cannot key): a put of a value it cannot
\* key fails, inserts nothing and emits no patch; in all other cases (here: a
\* well-typed value, a writable tree) it stores the value under the string
\* form of its identifier.
C19_PutKeysOrRejects ==
    [][last'.op = "put" =>
        LET i == last'.inst
            raw == last'.raw
            k == ToStr(raw.id)
        IN  IF CannotKey(raw, identifierMode)
            THEN /\ last'.err # "none"
                 /\ fresh' = {} /\ patches' = <<>>
                 /\ StoredIn(entries'[i]) = StoredIn(entries[i])
            ELSE (~isProtected /\ raw.kind = "obj") =>
                     /\ last'.err = "none"
                     /\ Holds(entries'[i][k], raw)]_vars

\* The position of a key in the iteration order of a snapshot.
Pos(k) == CHOOSE j \in 1..Len(KeyOrder) : KeyOrder[j] = k

\* The steps of a log at which a delete reaches the interceptor (the observer
\* then reads the snapshot of the deleted child), and those at which an
\* insert or update does.
DelEdits(l) ==
    {n \in 1..Len(l) : /\ l[n].ev = "assertWritable"
                       /\ n < Len(l) /\ l[n + 1].ev = "snapshot"}

SetEdits(l) == {n \in 1..Len(l) : l[n].ev = "assertWritable"} \ DelEdits(l)

\* C20 (ordering inside applySnapshot): the keys of S reach the interceptor
\* as inserts (key absent) or updates (key present), each once, in the
\* iteration order of S; the keys present before the call and missing in S
\* are deleted only after all of them; every add or replace patch precedes
\* every remove patch; no key of S is deleted.
C20_SnapshotOrder ==
    [][last'.op = "applySnapshot" =>
        LET i == last'.inst
            S == last'.snap.vals
            InS(k) == S[k].kind # "none"
            InM(k) == entries[i][k].kind # "none"
            sets == SetEdits(log')
            dels == DelEdits(log')
        IN  /\ \A n \in sets : InS(log'[n].key)
            /\ \A n, m \in sets :
                   n < m => Pos(log'[n].key) < Pos(log'[m].key)
            /\ \A n \in sets, m \in dels : n < m
            /\ \A m \in dels : ~InS(log'[m].key) /\ InM(log'[m].key)
            /\ \A k \in Keys :
                   (\E n \in 1..Len(log') : log'[n] = Ev("instantiate", k))
                       => InS(k) /\ ~InM(k)
            /\ \A k \in Keys :
                   (\E n \in 1..Len(log') : log'[n] = Ev("reconcile", k))
                       => InS(k) /\ InM(k)
            /\ \A a, b \in 1..Len(patches') :
                   (patches'[a].op = "remove" /\ patches'[b].op # "remove") => b < a
            /\ last'.err = "none" =>
                   /\ {log'[n].key : n \in sets} = {k \in Keys : InS(k)}
                   /\ {log'[m].key : m \in dels} = {k \in Keys : InM(k) /\ ~InS(k)}
                   /\ Cardinality(sets) = Cardinality({k \in Keys : InS(k)})
                   /\ \A k \in Keys : InS(k) => entries'[i][k].kind # "none"]_vars

\* An applySnapshot that updated the first key, inserted nothing and deleted
\* the second: a replace patch, then a remove patch.
C20_Witness ==
    /\ last.op = "applySnapshot" /\ last.err = "none"
    /\ last.snap.vals["7"].kind # "none" /\ last.snap.vals["8"].kind = "none"
    /\ Len(patches) = 2
    /\ patches[1].op = "replace" /\ patches[1].path[1] = "7"
    /\ patches[2].op = "remove" /\ patches[2].path = <<"8">>

====
